---- MODULE Spec2Model ----
(***************************************************************************)
(* The instrumented HTTP client of api_client.py (APIClient and its two    *)
(* service clients), the configuration constants of config.py it reads,    *)
(* and the callers' threads that use it.                                   *)
(*                                                                         *)
(* Python values: None is the empty sequence and a present value v is the  *)
(* one-element sequence <<v>>, so that optional fields have one type.      *)
(* Times are wall-clock readings in microseconds; response_time_ms is kept *)
(* in hundredths of a millisecond, the precision round(..., 2) leaves.     *)
(***************************************************************************)
EXTENDS Integers, Sequences, FiniteSets, TLC

\* ------------------------------------------------------------- bounds
\* requests handed to the transport in one behaviour
MaxSends == 2
\* the wall clock reads 0, 5, ..., 5 * MaxClock microseconds
MaxClock == 2

Clients == {"c1", "c2"}
Threads == {"t1", "t2"}
Tokens == {"X", "Y"}

\* ------------------------------------------------------------- config.py
JSONPLACEHOLDER_BASE_URL == "https://jsonplaceholder.typicode.com"
REQRES_BASE_URL == "https://reqres.in/api"
RESPONSE_TIMEOUT == 5
MAX_RESPONSE_TIME == 3000

\* ------------------------------------------------------------- Python values
None == <<>>
Some(v) == <<v>>
Val(o) == o[1]

PyStr(s) == [t |-> "str", v |-> s]
PyInt(s) == [t |-> "int", v |-> s]
\* a value json cannot serialize (a set, bytes, an object)
PySet == [t |-> "set", v |-> ""]
\* float("nan"), which json.dumps writes as NaN unless allow_nan is off
PyNaN == [t |-> "float", v |-> "NaN"]

\* dicts are sequences of <<key, value>> in insertion order
EmptyDict == <<>>
AdaDict == << <<"name", PyStr("Ada")>> >>
PostDict == << <<"title", PyStr("T")>>, <<"userId", PyInt("1")>> >>
BadDict == << <<"tags", PySet>> >>
NanDict == << <<"score", PyNaN>> >>

\* class Config as the interpreter holds it once config.py is imported
Config ==
    [JSONPLACEHOLDER_BASE_URL |-> JSONPLACEHOLDER_BASE_URL,
     REQRES_BASE_URL |-> REQRES_BASE_URL,
     TEST_USER_DATA |-> << <<"name", PyStr("John Doe")>>,
                           <<"job", PyStr("QA Automation Engineer")>> >>,
     TEST_POST_DATA |-> << <<"title", PyStr("Test Post Title")>>,
                           <<"body", PyStr("This is a test post body for API testing")>>,
                           <<"userId", PyInt("1")>> >>,
     VALID_LOGIN |-> << <<"email", PyStr("eve.holt@reqres.in")>>,
                        <<"password", PyStr("cityslicka")>> >>,
     VALID_REGISTER |-> << <<"email", PyStr("eve.holt@reqres.in")>>,
                           <<"password", PyStr("pistol")>> >>,
     RESPONSE_TIMEOUT |-> RESPONSE_TIMEOUT,
     MAX_RESPONSE_TIME |-> MAX_RESPONSE_TIME]

\* an exception object: its class, str(e), and the exception it was raised
\* while handling (__context__)
Exc(type, message, context) == [type |-> type, message |-> message, context |-> context]

\* requests.exceptions.RequestException and its subclasses
RequestExceptionTypes ==
    {"RequestException", "ConnectionError", "ConnectTimeout", "ReadTimeout",
     "SSLError", "InvalidJSONError"}

\* what the transport raises when the network layer fails
TransportFaults ==
    { Exc("ConnectTimeout", "Connection to host timed out. (connect timeout=5)", None),
      Exc("ReadTimeout", "Read timed out. (read timeout=5)", None),
      Exc("ConnectionError", "Failed to establish a new connection", None),
      Exc("SSLError", "CERTIFICATE_VERIFY_FAILED", None) }

\* the status codes the remote services answer with
StatusCodes == {200, 404, 500}

\* a computation that returns val or raises exc
Return(v) == [exc |-> None, val |-> v]
Raise(e) == [exc |-> Some(e), val |-> ""]

\* ------------------------------------------------------------- json.dumps
dumps_value(v) == IF v.t = "str" THEN "\"" \o v.v \o "\"" ELSE v.v

RECURSIVE dumps_items(_)
dumps_items(items) ==
    IF items = <<>> THEN ""
    ELSE LET kv == Head(items)
             one == "\"" \o kv[1] \o "\": " \o dumps_value(kv[2])
         IN  IF Tail(items) = <<>> THEN one
             ELSE one \o ", " \o dumps_items(Tail(items))

json_dumps(obj) ==
    IF \E i \in DOMAIN obj : obj[i][2].t = "set"
    THEN Raise(Exc("TypeError", "Object of type set is not JSON serializable", None))
    ELSE Return("{" \o dumps_items(obj) \o "}")

\* Python truthiness of an Optional[Dict]: None and {} are falsy
Truthy(data) == data # None /\ Val(data) # EmptyDict

\* ------------------------------------------------------------- header maps
HeaderUpdate(h, k, v) == [x \in DOMAIN h \cup {k} |-> IF x = k THEN v ELSE h[x]]
HeaderDelete(h, k) == [x \in DOMAIN h \ {k} |-> h[x]]
HeaderClear(h) == [x \in {} |-> ""]

\* requests.Session(): the headers a new session starts with
SessionDefaultHeaders ==
    [x \in {"User-Agent", "Accept-Encoding", "Accept", "Connection"} |->
        CASE x = "User-Agent" -> "python-requests"
          [] x = "Accept-Encoding" -> "gzip, deflate"
          [] x = "Accept" -> "*/*"
          [] x = "Connection" -> "keep-alive"]

VARIABLES
    kind,       \* kind[c]: the class of client object c, "none" before construction
    base_url,   \* base_url[c]: self.base_url
    headers,    \* headers[c]: self.session.headers
    token,      \* token[c]: the token of the last set_auth_token not yet removed (history)
    pc,         \* pc[t]: where thread t is inside a client method
    call,       \* call[t]: the frame of the method thread t is in
    outcome,    \* outcome[t]: what t's last finished method returned or raised
    attempts,   \* attempts[t]: session.request invocations of t's current / last call
    served,     \* served[t]: the status the remote answered t's current / last call with
    fault,      \* fault[t]: what the transport raised in t's current / last call
    now,        \* the wall clock, time.time(), in microseconds
    sendCount,  \* requests handed to the transport so far
    config,     \* the attributes of class Config
    cookies,    \* cookies[c]: self.session.cookies, the cookie the session holds
    runner      \* the run_tests.py process

vars == <<kind, base_url, headers, token, pc, call, outcome, attempts, served, fault,
          now, sendCount, config, cookies, runner>>

\* what no method of the client assigns
restVars == <<config, cookies, runner>>

clientVars == <<kind, base_url, headers, token>>
threadVars == <<pc, call, outcome, attempts, served, fault>>
wireVars == <<attempts, served, fault>>

\* ------------------------------------------------------------- records
NoKwargs ==
    [params |-> None, data |-> None, json |-> None, headers |-> None, timeout |-> None]

\* a request as the transport puts it on the wire
Request(method, url, hdrs, body, timeout) ==
    [method |-> method, url |-> url, headers |-> hdrs, body |-> body, timeout |-> timeout]

\* an invocation: the method's name and its arguments (those it does not take
\* are left at their defaults; page is absent when the caller passes none)
Inv(name) ==
    [name |-> name, method |-> "", endpoint |-> "", id |-> 1, page |-> None,
     data |-> None, params |-> None, kwargs |-> NoKwargs]

\* what the caller called, and the client's default headers as the call began
Began(inv, hdrs) == [inv |-> inv, headers |-> hdrs]
NoBegan == Began(Inv(""), <<>>)

NoCall ==
    [client |-> "", method |-> "", endpoint |-> "", kwargs |-> NoKwargs,
     url |-> "", start_time |-> 0, sent |-> None, began |-> NoBegan]

\* the transport library's response object, before the client annotates it
RawResponse(status) == [status_code |-> status, response_time_ms |-> None]
NoResponse == RawResponse(0)
NoExc == Exc("", "", None)

\* what a method gave its caller: nothing yet, None, a response, or an
\* exception; method is the method called, "request" for every method that
\* sends a request
NoOutcome == [method |-> "", kind |-> "pending", response |-> NoResponse, exc |-> NoExc]
Returned(r) == [method |-> "request", kind |-> "response", response |-> r, exc |-> NoExc]
Raised(e) == [method |-> "request", kind |-> "raised", response |-> NoResponse, exc |-> e]
ReturnedNone(m) == [method |-> m, kind |-> "none", response |-> NoResponse, exc |-> NoExc]
RaisedBy(m, e) == [Raised(e) EXCEPT !.method = m]

\* ------------------------------------------------------------- the clock
ClockValues == {5 * i : i \in 0..MaxClock}

\* Python's round(): the nearest multiple of d, ties to the even one
RoundHalfEven(n, d) ==
    LET q == n \div d
        r == n % d
    IN  IF 2 * r < d THEN q
        ELSE IF 2 * r > d THEN q + 1
        ELSE IF q % 2 = 0 THEN q ELSE q + 1

\* round((end_time - start_time) * 1000, 2), in hundredths of a millisecond
response_time_ms(start_time, end_time) == RoundHalfEven(end_time - start_time, 10)

\* ------------------------------------------------------------- construction
\* a constructor that probes the service
APIClient_init_ping(url) ==
    [base_url |-> url,
     headers |-> HeaderUpdate(HeaderUpdate(SessionDefaultHeaders,
                     "Content-Type", "application/json"),
                     "Accept", "application/json"),
     sends |-> 1]

\* a constructor that leaves the session's own Accept in place
APIClient_init_keep_accept(url) ==
    [base_url |-> url,
     headers |-> HeaderUpdate(SessionDefaultHeaders, "Content-Type", "application/json"),
     sends |-> 0]

\* what a constructor leaves: the object's fields, and the requests it sent
APIClient_init(url) ==
    [base_url |-> url,
     headers |-> HeaderUpdate(HeaderUpdate(SessionDefaultHeaders,
                     "Content-Type", "application/json"),
                     "Accept", "application/json"),
     sends |-> 0]

JSONPlaceholderClient_init == APIClient_init(config.JSONPLACEHOLDER_BASE_URL)

\* a users/auth client that adds Accept without clearing first
ReqResClient_init_no_clear ==
    LET self == APIClient_init(config.REQRES_BASE_URL)
    IN  [self EXCEPT !.headers = HeaderUpdate(self.headers, "Accept", "application/json")]

\* lines 96-102: super().__init__, headers.clear(), headers.update({'Accept': ...})
ReqResClient_init ==
    LET self == APIClient_init(config.REQRES_BASE_URL)
    IN  [self EXCEPT !.headers =
            HeaderUpdate(HeaderClear(self.headers), "Accept", "application/json")]

BaseUrls == {"https://example.test/api"}

NewClient(k, url) ==
    CASE k = "APIClient" -> APIClient_init(url)
      [] k = "JSONPlaceholderClient" -> JSONPlaceholderClient_init
      [] k = "ReqResClient" -> ReqResClient_init

\* a constructor that records the URL it was given as the configured one
Construct_store_url(c, k, url) ==
    /\ kind[c] = "none"
    /\ LET self == NewClient(k, url)
       IN  /\ kind' = [kind EXCEPT ![c] = k]
           /\ base_url' = [base_url EXCEPT ![c] = self.base_url]
           /\ headers' = [headers EXCEPT ![c] = self.headers]
           /\ sendCount' = sendCount + self.sends
    /\ config' = [config EXCEPT !.JSONPLACEHOLDER_BASE_URL = url]
    /\ UNCHANGED <<token, threadVars, now, cookies, runner>>

\* a client object is created
Construct(c, k, url) ==
    /\ kind[c] = "none"
    /\ LET self == NewClient(k, url)
       IN  /\ kind' = [kind EXCEPT ![c] = k]
           /\ base_url' = [base_url EXCEPT ![c] = self.base_url]
           /\ headers' = [headers EXCEPT ![c] = self.headers]
           /\ sendCount' = sendCount + self.sends
    /\ UNCHANGED <<token, threadVars, now, restVars>>

\* ------------------------------------------------------------- auth token
\* a method that is not a request finishes: no call of t is on the wire
NoWire(t) ==
    /\ attempts' = [attempts EXCEPT ![t] = 0]
    /\ served' = [served EXCEPT ![t] = None]
    /\ fault' = [fault EXCEPT ![t] = None]

\* a setter that stores the bare token
set_auth_token_headers_bare(h, tok) == HeaderUpdate(h, "Authorization", tok)

\* a setter that keeps a token already present
set_auth_token_headers_keep_first(h, tok) ==
    IF "Authorization" \in DOMAIN h THEN h
    ELSE HeaderUpdate(h, "Authorization", "Bearer " \o tok)

\* line 57: self.session.headers.update({'Authorization': f'Bearer {token}'})
set_auth_token_headers(h, tok) == HeaderUpdate(h, "Authorization", "Bearer " \o tok)

\* a setter whose header map is shared by every client instance
set_auth_token_shared_map(t, c, tok) ==
    /\ pc[t] = "idle"
    /\ kind[c] # "none"
    /\ headers' = [d \in Clients |->
                      IF kind[d] # "none"
                      THEN set_auth_token_headers(headers[d], tok) ELSE headers[d]]
    /\ token' = [d \in Clients |-> IF kind[d] # "none" THEN Some(tok) ELSE token[d]]
    /\ outcome' = [outcome EXCEPT ![t] = ReturnedNone("set_auth_token")]
    /\ NoWire(t)
    /\ UNCHANGED <<kind, base_url, pc, call, now, sendCount, restVars>>

\* lines 55-57
set_auth_token(t, c, tok) ==
    /\ pc[t] = "idle"
    /\ kind[c] # "none"
    /\ headers' = [headers EXCEPT ![c] = set_auth_token_headers(headers[c], tok)]
    /\ token' = [token EXCEPT ![c] = Some(tok)]
    /\ outcome' = [outcome EXCEPT ![t] = ReturnedNone("set_auth_token")]
    /\ NoWire(t)
    /\ UNCHANGED <<kind, base_url, pc, call, now, sendCount, restVars>>

\* a remover without the presence test
remove_check_always(h) == TRUE

\* line 61: if 'Authorization' in self.session.headers
remove_check(h) == "Authorization" \in DOMAIN h

\* a deletion that looks the entry up under a key the map does not hold
remove_del_wrong_key(h) ==
    [exc |-> Some(Exc("KeyError", "authorization", None)), headers |-> h]

\* line 62: del self.session.headers['Authorization']; a missing key raises
remove_del(h) ==
    IF "Authorization" \in DOMAIN h
    THEN [exc |-> None, headers |-> HeaderDelete(h, "Authorization")]
    ELSE [exc |-> Some(Exc("KeyError", "authorization", None)), headers |-> h]

\* lines 59-62 run by one caller with no other caller in between
remove_auth_token(h) ==
    IF remove_check(h) THEN remove_del(h) ELSE [exc |-> None, headers |-> h]

\* remove_auth_token up to the presence test
remove_auth_token_check(t, c) ==
    /\ pc[t] = "idle"
    /\ kind[c] # "none"
    /\ IF remove_check(headers[c])
       THEN /\ pc' = [pc EXCEPT ![t] = "del"]
            /\ call' = [call EXCEPT ![t] =
                  [NoCall EXCEPT !.client = c,
                                 !.began = Began(Inv("remove_auth_token"), headers[c])]]
            /\ outcome' = [outcome EXCEPT ![t] = NoOutcome]
            /\ UNCHANGED token
       ELSE /\ token' = [token EXCEPT ![c] = None]
            /\ outcome' = [outcome EXCEPT ![t] = ReturnedNone("remove_auth_token")]
            /\ UNCHANGED <<pc, call>>
    /\ NoWire(t)
    /\ UNCHANGED <<kind, base_url, headers, now, sendCount, restVars>>

\* remove_auth_token from the deletion on
remove_auth_token_del(t) ==
    /\ pc[t] = "del"
    /\ LET c == call[t].client
           r == remove_del(headers[c])
       IN  /\ headers' = [headers EXCEPT ![c] = r.headers]
           /\ IF r.exc = None
              THEN /\ token' = [token EXCEPT ![c] = None]
                   /\ outcome' = [outcome EXCEPT ![t] = ReturnedNone("remove_auth_token")]
              ELSE /\ outcome' = [outcome EXCEPT ![t] =
                                     RaisedBy("remove_auth_token", Val(r.exc))]
                   /\ UNCHANGED token
    /\ pc' = [pc EXCEPT ![t] = "idle"]
    /\ call' = [call EXCEPT ![t] = NoCall]
    /\ UNCHANGED <<kind, base_url, wireVars, now, sendCount, restVars>>

\* ------------------------------------------------------------- public methods
\* A method either raises before it reaches _make_request or calls
\* _make_request(method, endpoint, **kwargs).
Plan(method, endpoint, kwargs) ==
    [exc |-> None, method |-> method, endpoint |-> endpoint, kwargs |-> kwargs]
PlanRaise(e) == [exc |-> Some(e), method |-> "", endpoint |-> "", kwargs |-> NoKwargs]

make_request(method, endpoint, kwargs) == Plan(method, endpoint, kwargs)

\* a get that sends an empty JSON document along
get_with_body(endpoint, params) ==
    make_request("GET", endpoint, [NoKwargs EXCEPT !.params = params, !.json = Some(EmptyDict)])

\* lines 32-34
get(endpoint, params) == make_request("GET", endpoint, [NoKwargs EXCEPT !.params = params])

post(endpoint, data) ==
    IF ~Truthy(data)
    THEN make_request("POST", endpoint, [NoKwargs EXCEPT !.data = None])
    ELSE LET json_data == json_dumps(Val(data))
         IN  IF json_data.exc # None
             THEN PlanRaise(Val(json_data.exc))
             ELSE make_request("POST", endpoint, [NoKwargs EXCEPT !.data = Some(json_data.val)])

put(endpoint, data) ==
    IF ~Truthy(data)
    THEN make_request("PUT", endpoint, [NoKwargs EXCEPT !.data = None])
    ELSE LET json_data == json_dumps(Val(data))
         IN  IF json_data.exc # None
             THEN PlanRaise(Val(json_data.exc))
             ELSE make_request("PUT", endpoint, [NoKwargs EXCEPT !.data = Some(json_data.val)])

patch(endpoint, data) ==
    IF ~Truthy(data)
    THEN make_request("PATCH", endpoint, [NoKwargs EXCEPT !.data = None])
    ELSE LET json_data == json_dumps(Val(data))
         IN  IF json_data.exc # None
             THEN PlanRaise(Val(json_data.exc))
             ELSE make_request("PATCH", endpoint, [NoKwargs EXCEPT !.data = Some(json_data.val)])

delete(endpoint) == make_request("DELETE", endpoint, NoKwargs)

\* JSONPlaceholderClient
get_all_posts == get("/posts", None)
get_post(post_id) == get("/posts/" \o ToString(post_id), None)
create_post(post_data) == post("/posts", post_data)
update_post(post_id, post_data) == put("/posts/" \o ToString(post_id), post_data)
delete_post(post_id) == delete("/posts/" \o ToString(post_id))
get_post_comments(post_id) == get("/posts/" \o ToString(post_id) \o "/comments", None)
get_posts_by_user(user_id) == get("/posts", Some(<<"userId", ToString(user_id)>>))

\* ReqResClient
get_users(page) ==
    LET p == IF page = None THEN 1 ELSE Val(page)
    IN  get("/users", Some(<<"page", ToString(p)>>))
get_user(user_id) == get("/users/" \o ToString(user_id), None)
create_user(user_data) ==
    make_request("POST", "/users", [NoKwargs EXCEPT !.json = user_data])
update_user(user_id, user_data) ==
    make_request("PUT", "/users/" \o ToString(user_id), [NoKwargs EXCEPT !.json = user_data])
delete_user(user_id) == delete("/users/" \o ToString(user_id))
login(credentials) == make_request("POST", "/login", [NoKwargs EXCEPT !.json = credentials])
register(user_data) == make_request("POST", "/register", [NoKwargs EXCEPT !.json = user_data])

APIClientMethods == {"_make_request", "get", "post", "put", "patch", "delete"}
JSONPlaceholderMethods ==
    {"get_all_posts", "get_post", "create_post", "update_post", "delete_post",
     "get_post_comments", "get_posts_by_user"}
ReqResMethods ==
    {"get_users", "get_user", "create_user", "update_user", "delete_user",
     "login", "register"}

MethodsOf(k) ==
    CASE k = "APIClient" -> APIClientMethods
      [] k = "JSONPlaceholderClient" -> APIClientMethods \cup JSONPlaceholderMethods
      [] k = "ReqResClient" -> APIClientMethods \cup ReqResMethods
      [] OTHER -> {}

Dispatch(inv) ==
    CASE inv.name = "_make_request" -> make_request(inv.method, inv.endpoint, inv.kwargs)
      [] inv.name = "get" -> get(inv.endpoint, inv.params)
      [] inv.name = "post" -> post(inv.endpoint, inv.data)
      [] inv.name = "put" -> put(inv.endpoint, inv.data)
      [] inv.name = "patch" -> patch(inv.endpoint, inv.data)
      [] inv.name = "delete" -> delete(inv.endpoint)
      [] inv.name = "get_all_posts" -> get_all_posts
      [] inv.name = "get_post" -> get_post(inv.id)
      [] inv.name = "create_post" -> create_post(inv.data)
      [] inv.name = "update_post" -> update_post(inv.id, inv.data)
      [] inv.name = "delete_post" -> delete_post(inv.id)
      [] inv.name = "get_post_comments" -> get_post_comments(inv.id)
      [] inv.name = "get_posts_by_user" -> get_posts_by_user(inv.id)
      [] inv.name = "get_users" -> get_users(inv.page)
      [] inv.name = "get_user" -> get_user(inv.id)
      [] inv.name = "create_user" -> create_user(inv.data)
      [] inv.name = "update_user" -> update_user(inv.id, inv.data)
      [] inv.name = "delete_user" -> delete_user(inv.id)
      [] inv.name = "login" -> login(inv.data)
      [] inv.name = "register" -> register(inv.data)

\* ------------------------------------------------------------- the transport library
\* a merge in which the session's value wins on a shared key
merge_setting_session_wins(request_setting, session_setting) ==
    IF request_setting = None THEN session_setting
    ELSE LET r == Val(request_setting)
             keys == (DOMAIN session_setting \cup DOMAIN r)
                         \ {k \in DOMAIN r : r[k] = None}
         IN  [k \in keys |-> IF k \in DOMAIN session_setting
                             THEN session_setting[k] ELSE Val(r[k])]

\* requests.sessions.merge_setting: the call's headers over the session's,
\* a key the call sets to None dropped
merge_setting(request_setting, session_setting) ==
    IF request_setting = None THEN session_setting
    ELSE LET r == Val(request_setting)
             keys == (DOMAIN session_setting \cup DOMAIN r)
                         \ {k \in DOMAIN r : r[k] = None}
         IN  [k \in keys |-> IF k \in DOMAIN r THEN Val(r[k]) ELSE session_setting[k]]

\* PreparedRequest.prepare_url: params become the query string
prepare_url(url, params) ==
    IF params = None THEN url
    ELSE url \o "?" \o Val(params)[1] \o "=" \o Val(params)[2]

\* complexjson.dumps(json, allow_nan=False); a ValueError becomes InvalidJSONError
complexjson_dumps(obj) ==
    IF \E i \in DOMAIN obj : obj[i][2].t = "float" /\ obj[i][2].v = "NaN"
    THEN Raise(Exc("InvalidJSONError",
                   "Out of range float values are not JSON compliant", None))
    ELSE json_dumps(obj)

\* PreparedRequest.prepare_body and prepare_content_length
prepare_body(method, hdrs, data, json) ==
    LET useJson == data = None /\ json # None
        dumped == complexjson_dumps(Val(json))
        body == IF useJson THEN Some(dumped.val) ELSE data
        withLength ==
            IF body # None /\ Len(Val(body)) > 0
            THEN HeaderUpdate(hdrs, "Content-Length", ToString(Len(Val(body))))
            ELSE IF method # "GET" /\ "Content-Length" \notin DOMAIN hdrs
                 THEN HeaderUpdate(hdrs, "Content-Length", "0")
                 ELSE hdrs
        withType ==
            IF useJson /\ "Content-Type" \notin DOMAIN withLength
            THEN HeaderUpdate(withLength, "Content-Type", "application/json")
            ELSE withLength
    IN  IF useJson /\ dumped.exc # None
        THEN [exc |-> dumped.exc, headers |-> hdrs, body |-> None]
        ELSE [exc |-> None, headers |-> withType, body |-> body]

\* PreparedRequest.prepare_cookies: the session's cookie goes out as a header
prepare_cookies(hdrs, jar) ==
    IF jar = None THEN hdrs ELSE HeaderUpdate(hdrs, "Cookie", Val(jar))

\* Session.prepare_request and PreparedRequest.prepare
prepare_request(method, url, timeout, kwargs, session_headers, jar) ==
    LET merged == merge_setting(kwargs.headers, session_headers)
        withCookie == prepare_cookies(merged, jar)
        p == prepare_body(method, withCookie, kwargs.data, kwargs.json)
    IN  IF p.exc # None THEN Raise(Val(p.exc))
        ELSE Return(Request(method, prepare_url(url, kwargs.params), p.headers,
                            p.body, timeout))

\* a call that lets a timeout among kwargs replace the configured one
session_request_kwargs_timeout(method, url, timeout, kwargs, session_headers, jar) ==
    IF kwargs.timeout # None
    THEN prepare_request(method, url, Val(kwargs.timeout), kwargs, session_headers, jar)
    ELSE prepare_request(method, url, timeout, kwargs, session_headers, jar)

\* line 25: session.request(method, url, timeout=Config.RESPONSE_TIMEOUT, **kwargs);
\* a timeout among kwargs is the same keyword twice, which the call rejects
session_request(method, url, timeout, kwargs, session_headers, jar) ==
    IF kwargs.timeout # None
    THEN Raise(Exc("TypeError", "got multiple values for keyword argument 'timeout'",
                   None))
    ELSE prepare_request(method, url, timeout, kwargs, session_headers, jar)

\* ------------------------------------------------------------- _make_request
\* leaving the method: t's caller has the outcome, the frame is gone
Finish(t, out) ==
    /\ outcome' = [outcome EXCEPT ![t] = out]
    /\ pc' = [pc EXCEPT ![t] = "idle"]
    /\ call' = [call EXCEPT ![t] = NoCall]

\* a handler that lets the transport library's exception through
except_RequestException_reraise(e) == e

\* lines 29-30: except RequestException as e: raise Exception(...)
except_RequestException(e) ==
    IF e.type \in RequestExceptionTypes
    THEN Exc("Exception", "Request failed: " \o e.message, Some(e))
    ELSE e

\* a handler that sends the request once more before it gives up
request_raised_retry(t, e) ==
    IF pc[t] = "waiting" /\ attempts[t] < 2
    THEN /\ pc' = [pc EXCEPT ![t] = "request"]
         /\ call' = [call EXCEPT ![t].sent = None]
         /\ UNCHANGED outcome
    ELSE Finish(t, Raised(except_RequestException(e)))

\* an exception leaves session.request inside the try block
request_raised(t, e) == Finish(t, Raised(except_RequestException(e)))

\* a client that turns 4xx and 5xx answers into errors
request_returned_raise_for_status(response, start_time, end_time) ==
    IF response.status_code >= 400
    THEN Raised(Exc("HTTPError", ToString(response.status_code) \o " Error", None))
    ELSE Returned([response EXCEPT !.response_time_ms =
                      Some(response_time_ms(start_time, end_time))])

\* a client that times only successful answers
request_returned_untimed_errors(response, start_time, end_time) ==
    IF response.status_code >= 400
    THEN Returned(response)
    ELSE Returned([response EXCEPT !.response_time_ms =
                      Some(response_time_ms(start_time, end_time))])

\* a client that keeps the start reading in one place shared by its callers:
\* the elapsed time is taken from the latest call begun
request_returned_shared_start(response, start_time, end_time) ==
    LET inFlight == {u \in Threads : pc[u] \in {"request", "waiting"}}
        latest == CHOOSE s \in {call[u].start_time : u \in inFlight} :
                     \A u \in inFlight : call[u].start_time <= s
    IN  Returned([response EXCEPT !.response_time_ms =
                     Some(response_time_ms(latest, end_time))])

\* lines 26-28: end_time, response.response_time_ms, return response
request_returned(response, start_time, end_time) ==
    Returned([response EXCEPT !.response_time_ms =
                 Some(response_time_ms(start_time, end_time))])

\* a client method is called: its own lines, then _make_request lines 21-22
Call(t, c, inv) ==
    /\ pc[t] = "idle"
    /\ kind[c] # "none"
    /\ inv.name \in MethodsOf(kind[c])
    /\ sendCount + Cardinality({u \in Threads : pc[u] = "request"}) < MaxSends
    /\ attempts' = [attempts EXCEPT ![t] = 0]
    /\ served' = [served EXCEPT ![t] = None]
    /\ fault' = [fault EXCEPT ![t] = None]
    /\ LET plan == Dispatch(inv)
       IN  IF plan.exc # None
           THEN /\ outcome' = [outcome EXCEPT ![t] = Raised(Val(plan.exc))]
                /\ UNCHANGED <<pc, call>>
           ELSE /\ outcome' = [outcome EXCEPT ![t] = NoOutcome]
                /\ pc' = [pc EXCEPT ![t] = "request"]
                /\ call' = [call EXCEPT ![t] =
                      [client |-> c, method |-> plan.method, endpoint |-> plan.endpoint,
                       kwargs |-> plan.kwargs, url |-> base_url[c] \o plan.endpoint,
                       start_time |-> now, sent |-> None,
                       began |-> Began(inv, headers[c])]]
    /\ UNCHANGED <<clientVars, now, sendCount, restVars>>

\* line 25: session.request(...) prepares the request and hands it to the transport
SessionRequest(t) ==
    /\ pc[t] = "request"
    /\ LET f == call[t]
           prep == session_request(f.method, f.url, config.RESPONSE_TIMEOUT, f.kwargs,
                                   headers[f.client], cookies[f.client])
       IN  IF prep.exc # None
           THEN /\ request_raised(t, Val(prep.exc))
                /\ UNCHANGED <<attempts, sendCount>>
           ELSE /\ call' = [call EXCEPT ![t].sent = Some(prep.val)]
                /\ pc' = [pc EXCEPT ![t] = "waiting"]
                /\ attempts' = [attempts EXCEPT ![t] = @ + 1]
                /\ sendCount' = sendCount + 1
                /\ UNCHANGED outcome
    /\ UNCHANGED <<clientVars, served, fault, now, restVars>>

\* a client that notes the last status code among its default headers
TransportRespond_remember(t, status) ==
    /\ pc[t] = "waiting"
    /\ served' = [served EXCEPT ![t] = Some(status)]
    /\ headers' = [headers EXCEPT ![call[t].client] =
                      HeaderUpdate(@, "X-Last-Status", ToString(status))]
    /\ Finish(t, request_returned(RawResponse(status), call[t].start_time, now))
    /\ UNCHANGED <<kind, base_url, token, attempts, fault, now, sendCount, restVars>>

\* the remote service answers with a status code
TransportRespond(t, status) ==
    /\ pc[t] = "waiting"
    /\ served' = [served EXCEPT ![t] = Some(status)]
    /\ Finish(t, request_returned(RawResponse(status), call[t].start_time, now))
    /\ UNCHANGED <<clientVars, attempts, fault, now, sendCount, restVars>>

\* cookies a service hands out
CookieValues == {"sid=1"}

\* the remote service answers and sets a cookie: inside session.request the
\* session stores it in its jar before the response is returned
TransportRespondSetCookie(t, status, cookie) ==
    /\ pc[t] = "waiting"
    /\ served' = [served EXCEPT ![t] = Some(status)]
    /\ cookies' = [cookies EXCEPT ![call[t].client] = Some(cookie)]
    /\ Finish(t, request_returned(RawResponse(status), call[t].start_time, now))
    /\ UNCHANGED <<clientVars, attempts, fault, now, sendCount, config, runner>>

\* the network layer fails: timeout, refused connection, DNS, TLS
TransportFail(t, e) ==
    /\ pc[t] = "waiting"
    /\ fault' = [fault EXCEPT ![t] = Some(e)]
    /\ request_raised(t, e)
    /\ UNCHANGED <<clientVars, attempts, served, now, sendCount, restVars>>

\* ------------------------------------------------------------- the wall clock
\* time passes
ClockAdvance ==
    /\ \E v \in ClockValues : v > now /\ now' = v
    /\ UNCHANGED <<clientVars, threadVars, sendCount, restVars>>

\* time.time() is the system's wall clock, which can be set back
ClockSetBack ==
    /\ \E v \in ClockValues : v < now /\ now' = v
    /\ UNCHANGED <<clientVars, threadVars, sendCount, restVars>>

\* ------------------------------------------------------------- the test runner
\* text is a sequence of characters; sup2 stands for the character
\* SUPERSCRIPT TWO, a digit that is not a decimal digit
DecimalDigits == {"0", "1", "2", "3", "4", "5", "6", "7", "8", "9"}
OtherDigits == {"sup2"}
DigitValue(ch) ==
    CASE ch = "0" -> 0 [] ch = "1" -> 1 [] ch = "2" -> 2 [] ch = "3" -> 3
      [] ch = "4" -> 4 [] ch = "5" -> 5 [] ch = "6" -> 6 [] ch = "7" -> 7
      [] ch = "8" -> 8 [] ch = "9" -> 9

\* str.isdigit(): non-empty, every character a digit of any kind
isdigit(s) == Len(s) > 0 /\ \A i \in DOMAIN s : s[i] \in DecimalDigits \cup OtherDigits

\* str.strip()
RECURSIVE strip(_)
strip(s) ==
    IF s = <<>> THEN s
    ELSE IF Head(s) = " " THEN strip(Tail(s))
    ELSE IF s[Len(s)] = " " THEN strip(SubSeq(s, 1, Len(s) - 1))
    ELSE s

RECURSIVE decimal_value(_)
decimal_value(s) ==
    IF s = <<>> THEN 0
    ELSE 10 * decimal_value(SubSeq(s, 1, Len(s) - 1)) + DigitValue(s[Len(s)])

\* int(s): blanks around, an optional sign, then decimal digits only
int(s) ==
    LET b == strip(s)
        signed == b # <<>> /\ Head(b) \in {"+", "-"}
        digits == IF signed THEN Tail(b) ELSE b
    IN  IF digits # <<>> /\ \A i \in DOMAIN digits : digits[i] \in DecimalDigits
        THEN Return(IF signed /\ Head(b) = "-" THEN 0 - decimal_value(digits)
                    ELSE decimal_value(digits))
        ELSE Raise(Exc("ValueError", "invalid literal for int() with base 10", None))

\* lines 40-46
test_groups ==
    << <<1, "Basic CRUD Operations">>,
       <<2, "Authentication & Security">>,
       <<3, "Data Relationships & Filtering">>,
       <<4, "Error Handling & Edge Cases">>,
       <<5, "Performance & Advanced Features">> >>

\* results[key] = value on a dict kept in insertion order
DictSet(d, key, value) ==
    IF \E i \in DOMAIN d : d[i][1] = key
    THEN [i \in DOMAIN d |-> IF d[i][1] = key THEN <<key, value>> ELSE d[i]]
    ELSE Append(d, <<key, value>>)

\* what run_test_group last returned, and why
NoReturn == [group |-> 0, launched |-> FALSE, returncode |-> None, value |-> FALSE]

\* the runner process before it is started
NoRunner ==
    [pc |-> "off", argv |-> None, choice |-> None, caller |-> "", idx |-> 0,
     group |-> 0, running |-> {}, started |-> <<>>, returns |-> <<>>,
     last |-> NoReturn, results |-> <<>>, summary |-> None, exc |-> None]

apiVars == <<clientVars, threadVars, now, sendCount, config, cookies>>

\* what can stand on the command line, and what can be typed at the prompts
Arguments ==
    {None, Some(<<"a", "l", "l">>), Some(<<"3">>), Some(<<"0">>), Some(<<"1", "2">>),
     Some(<<"-", "1">>), Some(<<"a", "b", "c">>), Some(<<"sup2">>)}
MenuInputs == {<<"1">>, <<"2">>, <<"3">>, <<>>}
GroupInputs == {<<"4">>, <<" ", "5">>, <<"0">>, <<"9">>, <<"x">>, <<>>, <<"sup2">>}

\* python run_tests.py [argument]
Launch(arg) ==
    /\ runner.pc = "off"
    /\ runner' = [runner EXCEPT !.pc = "main", !.argv = arg]
    /\ UNCHANGED apiVars

\* run_test_group is called: lines 9-22
CallGroup(r, g, caller) ==
    [r EXCEPT !.pc = "group_call", !.group = g, !.caller = caller,
              !.started = Append(@, g)]

\* lines 111-132: the command line
Main ==
    /\ runner.pc = "main"
    /\ IF runner.argv = None
       THEN runner' = [runner EXCEPT !.pc = "main_prompt"]
       ELSE LET a == Val(runner.argv)
            IN  IF a = <<"a", "l", "l">>
                THEN runner' = [runner EXCEPT !.pc = "all_start"]
                ELSE IF isdigit(a)
                THEN LET group_num == int(a)
                     IN  IF group_num.exc # None
                         THEN runner' = [runner EXCEPT !.pc = "crashed",
                                                       !.exc = group_num.exc]
                         ELSE IF 1 <= group_num.val /\ group_num.val <= 5
                         THEN runner' = CallGroup(runner, group_num.val, "main")
                         ELSE runner' = [runner EXCEPT !.pc = "exit"]
                ELSE runner' = [runner EXCEPT !.pc = "exit"]
    /\ UNCHANGED apiVars

\* lines 134-140: the first prompt
MainChoice(choice) ==
    /\ runner.pc = "main_prompt"
    /\ runner' = [runner EXCEPT !.pc = IF choice = <<"1">> THEN "all_start"
                                       ELSE IF choice = <<"2">> THEN "single_prompt"
                                       ELSE "exit"]
    /\ UNCHANGED apiVars

\* run_single_group, lines 84-105
run_single_group(text) ==
    /\ runner.pc = "single_prompt"
    /\ LET choice == int(text)
           r == [runner EXCEPT !.choice = Some(text)]
       IN  IF choice.exc # None
           THEN runner' = [r EXCEPT !.pc = "exit"]
           ELSE IF 1 <= choice.val /\ choice.val <= 5
           THEN runner' = CallGroup(r, choice.val, "run_single_group")
           ELSE runner' = [r EXCEPT !.pc = "exit"]
    /\ UNCHANGED apiVars

\* run_all_tests, lines 33-48: os.makedirs either succeeds or raises OSError
run_all_tests(made) ==
    /\ runner.pc = "all_start"
    /\ IF made
       THEN runner' = [runner EXCEPT !.pc = "all_loop", !.idx = 1, !.results = <<>>]
       ELSE runner' = [runner EXCEPT !.pc = "crashed",
                          !.exc = Some(Exc("OSError", "reports", None))]
    /\ UNCHANGED apiVars

\* a loop that gives up at the first failing group
loop_next_stop_on_failure(idx, success) ==
    IF success THEN idx + 1 ELSE Len(test_groups) + 1

\* line 50: the for loop moves on whatever the group's result
loop_next(idx, success) == idx + 1

\* a count that takes every recorded group as passed
sum_passed_len(results) == Len(results)

\* line 64: passed = sum(1 for success in results.values() if success)
sum_passed(results) == Cardinality({i \in DOMAIN results : results[i][2]})

\* lines 50-51 while groups remain, lines 59-80 after the last
run_all_tests_loop ==
    /\ runner.pc = "all_loop"
    /\ IF runner.idx <= Len(test_groups)
       THEN runner' = CallGroup(runner, test_groups[runner.idx][1], "run_all_tests")
       ELSE LET passed == sum_passed(runner.results)
                total == Len(runner.results)
            IN  runner' = [runner EXCEPT !.pc = "exit",
                              !.summary = Some([passed |-> passed, total |-> total,
                                                all_passed |-> passed = total])]
    /\ UNCHANGED apiVars

\* a runner for which "no tests collected" counts as a pass
returncode_ok_no_tests(returncode) == returncode \in {0, 5}

\* line 26: result.returncode == 0
returncode_ok(returncode) == returncode = 0

\* run_test_group returns to its caller; run_all_tests records the result
\* (lines 52-57)
ReturnGroup(r, launched, returncode, success) ==
    LET back == [r EXCEPT !.running = {},
                          !.returns = Append(@, <<r.group, success>>),
                          !.last = [group |-> r.group, launched |-> launched,
                                    returncode |-> returncode, value |-> success]]
    IN  IF r.caller = "run_all_tests"
        THEN [back EXCEPT !.pc = "all_loop",
                          !.results = DictSet(@, r.group, success),
                          !.idx = loop_next(@, success)]
        ELSE [back EXCEPT !.pc = "exit"]

\* lines 24-25 and 27-29: subprocess.run starts the test process, or raises
SubprocessRun(launched) ==
    /\ runner.pc = "group_call"
    /\ IF launched
       THEN runner' = [runner EXCEPT !.pc = "group_running",
                                     !.running = @ \cup {runner.group}]
       ELSE runner' = ReturnGroup(runner, FALSE, None, FALSE)
    /\ UNCHANGED apiVars

\* exit codes of the test process
ReturnCodes == {0, 1, 5}

\* lines 25-26: the test process ends and subprocess.run returns
SubprocessExit(returncode) ==
    /\ runner.pc = "group_running"
    /\ runner' = ReturnGroup(runner, TRUE, Some(returncode), returncode_ok(returncode))
    /\ UNCHANGED apiVars

NextRunner ==
    \/ \E arg \in Arguments : Launch(arg)
    \/ Main
    \/ \E choice \in MenuInputs : MainChoice(choice)
    \/ \E text \in GroupInputs : run_single_group(text)
    \/ \E made \in BOOLEAN : run_all_tests(made)
    \/ run_all_tests_loop
    \/ \E launched \in BOOLEAN : SubprocessRun(launched)
    \/ \E returncode \in ReturnCodes : SubprocessExit(returncode)

\* ------------------------------------------------------------- specification
Init ==
    /\ kind = [c \in Clients |-> "none"]
    /\ base_url = [c \in Clients |-> ""]
    /\ headers = [c \in Clients |-> [x \in {} |-> ""]]
    /\ token = [c \in Clients |-> None]
    /\ pc = [t \in Threads |-> "idle"]
    /\ call = [t \in Threads |-> NoCall]
    /\ outcome = [t \in Threads |-> NoOutcome]
    /\ attempts = [t \in Threads |-> 0]
    /\ served = [t \in Threads |-> None]
    /\ fault = [t \in Threads |-> None]
    /\ now = 0
    /\ sendCount = 0
    /\ config = Config
    /\ cookies = [c \in Clients |-> None]
    /\ runner = NoRunner

Kinds == {"APIClient", "JSONPlaceholderClient", "ReqResClient"}

\* header overrides a caller can pass to _make_request
HeaderOverrides ==
    { [x \in {"Authorization"} |-> Some("Basic abc")],
      [x \in {"Authorization"} |-> None] }

\* the invocations the callers make
Menu ==
    { [Inv("get") EXCEPT !.endpoint = "/posts"],
      [Inv("delete") EXCEPT !.endpoint = "/posts/1"] }
    \cup { [Inv("post") EXCEPT !.endpoint = "/posts", !.data = d] :
             d \in {None, Some(EmptyDict), Some(AdaDict), Some(BadDict)} }
    \cup { [Inv("put") EXCEPT !.endpoint = "/posts/1", !.data = Some(PostDict)],
           [Inv("patch") EXCEPT !.endpoint = "/posts/1", !.data = Some(AdaDict)] }
    \cup { [Inv("_make_request") EXCEPT !.method = "GET", !.endpoint = "/posts",
                                        !.kwargs = [NoKwargs EXCEPT !.headers = Some(h)]] :
             h \in HeaderOverrides }
    \cup { [Inv("_make_request") EXCEPT !.method = "GET", !.endpoint = "/posts",
                                        !.kwargs = [NoKwargs EXCEPT !.timeout = Some(1)]],
           [Inv("get_users") EXCEPT !.page = Some(2)] }
    \cup { [Inv(n) EXCEPT !.data = Some(EmptyDict)] : n \in {"create_post", "update_post"} }
    \cup { Inv(n) : n \in {"get_all_posts", "get_post", "delete_post",
                           "get_post_comments", "get_posts_by_user",
                           "get_users", "get_user", "delete_user"} }
    \cup { [Inv(n) EXCEPT !.data = Some(AdaDict)] :
             n \in {"create_post", "update_post", "update_user", "login", "register"} }
    \cup { [Inv("create_user") EXCEPT !.data = d] :
             d \in {Some(AdaDict), Some(EmptyDict), Some(NanDict), Some(BadDict)} }

\* one step of the system: threads T use clients C of kinds K, calling the
\* invocations M
Step(T, C, K, M) ==
    \/ \E c \in C, k \in K, u \in BaseUrls : Construct(c, k, u)
    \/ \E t \in T, c \in C, tok \in Tokens : set_auth_token(t, c, tok)
    \/ \E t \in T, c \in C : remove_auth_token_check(t, c)
    \/ \E t \in T : remove_auth_token_del(t)
    \/ \E t \in T, c \in C, inv \in M : Call(t, c, inv)
    \/ \E t \in T : SessionRequest(t)
    \/ \E t \in T, status \in StatusCodes : TransportRespond(t, status)
    \/ \E t \in T, e \in TransportFaults : TransportFail(t, e)
    \/ ClockAdvance
    \/ ClockSetBack

\* one caller at a time, every kind of client, every invocation
Next == Step({"t1"}, Clients, Kinds, Menu)

Spec == Init /\ [][Next]_vars

\* two callers sharing one client
ConcMenu ==
    { [Inv("get") EXCEPT !.endpoint = "/posts"],
      [Inv("post") EXCEPT !.endpoint = "/posts", !.data = Some(AdaDict)] }

NextConc == Step(Threads, {"c1"}, {"APIClient"}, ConcMenu)

SpecConc == Init /\ [][NextConc]_vars

\* one caller and one client, against a service that may set a cookie
SessionMenu ==
    { [Inv("get") EXCEPT !.endpoint = "/posts"],
      [Inv("post") EXCEPT !.endpoint = "/posts", !.data = Some(AdaDict)] }

NextSession ==
    \/ Step({"t1"}, {"c1"}, {"APIClient"}, SessionMenu)
    \/ \E status \in StatusCodes, cookie \in CookieValues :
          TransportRespondSetCookie("t1", status, cookie)

SpecSession == Init /\ [][NextSession]_vars

\* the runner alone
SpecRunner == Init /\ [][NextRunner]_vars

\* ------------------------------------------------------------- claims
Caller == "t1"

C2_NoRetry ==
    \A t \in Threads :
        fault[t] # None =>
            /\ attempts[t] = 1
            /\ pc[t] = "idle"
            /\ outcome[t].kind = "raised"

C2_Witness ==
    /\ fault[Caller] # None
    /\ Val(fault[Caller]).type = "ConnectTimeout"
    /\ attempts[Caller] = 1
    /\ sendCount = 1

\* C3 (as claimed): a client method ends with a response or with the one
\* transport error kind, whatever its arguments.
C3_OnlyResponseOrTransportError ==
    \A t \in Threads :
        outcome[t].kind = "raised" => outcome[t].exc.type = "Exception"

\* C4: whatever status the remote service answers with, the caller gets a
\* response carrying that status and no error.
C4_StatusRelayed ==
    \A t \in Threads :
        served[t] # None =>
            /\ outcome[t].kind = "response"
            /\ outcome[t].response.status_code = Val(served[t])

C4_Witness ==
    /\ served[Caller] = Some(500)
    /\ outcome[Caller].kind = "response"
    /\ outcome[Caller].response.status_code = 500

\* C5: every response a caller holds carries response_time_ms, and while the
\* caller holds it no step of any caller (another call on the same client, a
\* token change, a clock change) alters it.
C5_TimedOnce ==
    /\ [](\A t \in Threads :
            outcome[t].kind = "response" => outcome[t].response.response_time_ms # None)
    /\ [][\A t \in Threads :
            (outcome[t].kind = "response" /\ outcome'[t].kind = "response")
                => outcome'[t].response = outcome[t].response]_vars

C5_Witness ==
    /\ outcome["t1"].kind = "response"
    /\ outcome["t2"].kind = "response"
    /\ outcome["t1"].response.response_time_ms = Some(1)
    /\ outcome["t2"].response.response_time_ms = Some(0)
    /\ outcome["t2"].response.status_code = 404

\* C6 (as claimed): response_time_ms of a returned response is never below zero.
C6_ElapsedNonNegative ==
    \A t \in Threads :
        outcome[t].kind = "response" =>
            Val(outcome[t].response.response_time_ms) >= 0

\* the Authorization header of the request t's step puts on the wire is the
\* one the last set_auth_token / remove_auth_token on that client left
SendsCurrentToken(t) ==
    LET c == call[t].client
        sent == Val(call'[t].sent).headers
    IN  IF token[c] # None
        THEN /\ "Authorization" \in DOMAIN sent
             /\ sent["Authorization"] = "Bearer " \o Val(token[c])
        ELSE "Authorization" \notin DOMAIN sent

\* the call passes no Authorization entry of its own
NoAuthorizationOverride(kwargs) ==
    kwargs.headers = None \/ "Authorization" \notin DOMAIN Val(kwargs.headers)

\* C7 (as claimed): after set_auth_token(X) every call sends Authorization:
\* Bearer X until the token is replaced or removed, and after
\* remove_auth_token() every call sends no Authorization header.
C7_EveryCallSendsToken ==
    [][\A t \in Threads :
         (pc[t] = "request" /\ pc'[t] = "waiting") => SendsCurrentToken(t)]_vars

\* C7 (amended): the same, for every call that passes no Authorization header
\* of its own to _make_request.
C7_CallsWithoutOverrideSendToken ==
    [][\A t \in Threads :
         (pc[t] = "request" /\ pc'[t] = "waiting"
            /\ NoAuthorizationOverride(call[t].kwargs)) => SendsCurrentToken(t)]_vars

C7_Witness ==
    /\ pc[Caller] = "waiting"
    /\ call[Caller].kwargs.headers = None
    /\ token[call[Caller].client] = Some("Y")
    /\ Val(call[Caller].sent).headers["Authorization"] = "Bearer Y"

\* C8: remove_auth_token() on a client without an Authorization header goes
\* no further than the presence test, raises nothing and leaves the header
\* map as it was; removing twice leaves what removing once leaves.
C8_RemoveAbsentIsNoOp ==
    /\ [][\A t \in Threads :
            (pc[t] = "idle" /\ pc'[t] = "del")
                => "Authorization" \in DOMAIN headers[call'[t].client]]_vars
    /\ [][\A t \in Threads :
            (pc[t] = "idle" /\ pc'[t] = "idle" /\ outcome'[t] # outcome[t]
                /\ outcome'[t].method = "remove_auth_token")
                => (headers' = headers /\ outcome'[t].kind = "none")]_vars
    /\ [](\A c \in Clients :
            LET once == remove_auth_token(headers[c])
            IN  /\ once.exc = None
                /\ remove_auth_token(once.headers) = once)

C8_Witness ==
    /\ outcome[Caller] = ReturnedNone("remove_auth_token")
    /\ kind["c1"] = "ReqResClient"
    /\ kind["c2"] = "none"
    /\ DOMAIN headers["c1"] = {"Accept"}
    /\ sendCount = 0

\* C9: constructing a client hands no request to the transport.
C9_ConstructSendsNothing ==
    [][\A c \in Clients :
         (kind[c] = "none" /\ kind'[c] # "none")
            => (sendCount' = sendCount /\ attempts' = attempts)]_vars

C9_Witness ==
    /\ kind["c1"] = "ReqResClient"
    /\ kind["c2"] = "JSONPlaceholderClient"
    /\ sendCount = 0

\* the base URL a client of kind k is bound to
BoundTo(k, url) ==
    IF k = "JSONPlaceholderClient" THEN url = JSONPLACEHOLDER_BASE_URL ELSE url \in BaseUrls

\* C10 (as claimed): right after construction of a base or posts-service
\* client its default headers are exactly Content-Type and Accept, both
\* application/json.
C10_ExactlyTwoDefaults ==
    [][\A c \in Clients :
         (kind[c] = "none" /\ kind'[c] \in {"APIClient", "JSONPlaceholderClient"})
            => /\ BoundTo(kind'[c], base_url'[c])
               /\ headers'[c] = [x \in {"Content-Type", "Accept"} |-> "application/json"]]_vars

\* C10 (amended): right after construction the client is bound to the given
\* base URL, its default headers hold Content-Type and Accept as
\* application/json and no Authorization, and every other entry is one the
\* transport session itself starts with.
C10_DefaultsAfterConstruct ==
    [][\A c \in Clients :
         (kind[c] = "none" /\ kind'[c] \in {"APIClient", "JSONPlaceholderClient"})
            => /\ BoundTo(kind'[c], base_url'[c])
               /\ {"Content-Type", "Accept"} \subseteq DOMAIN headers'[c]
               /\ headers'[c]["Content-Type"] = "application/json"
               /\ headers'[c]["Accept"] = "application/json"
               /\ "Authorization" \notin DOMAIN headers'[c]
               /\ \A k \in DOMAIN headers'[c] \ {"Content-Type", "Accept"} :
                     /\ k \in DOMAIN SessionDefaultHeaders
                     /\ headers'[c][k] = SessionDefaultHeaders[k]]_vars

C10_Witness ==
    /\ kind["c1"] = "APIClient"
    /\ base_url["c1"] = "https://example.test/api"
    /\ headers["c1"]["Accept"] = "application/json"
    /\ headers["c1"]["Content-Type"] = "application/json"
    /\ kind["c2"] = "JSONPlaceholderClient"
    /\ base_url["c2"] = "https://jsonplaceholder.typicode.com"

\* C11: constructing a ReqResClient leaves default headers that hold
\* Accept: application/json and nothing else: no Content-Type, and none of the
\* entries the base client starts with.
C11_ReqResHeadersOverridden ==
    [][\A c \in Clients :
         (kind[c] = "none" /\ kind'[c] = "ReqResClient")
            => /\ headers'[c] = [x \in {"Accept"} |-> "application/json"]
               /\ "Content-Type" \notin DOMAIN headers'[c]
               /\ \A k \in DOMAIN APIClient_init(base_url'[c]).headers \ {"Accept"} :
                     k \notin DOMAIN headers'[c]]_vars

C11_Witness ==
    /\ kind["c1"] = "ReqResClient"
    /\ base_url["c1"] = REQRES_BASE_URL
    /\ DOMAIN headers["c1"] = {"Accept"}
    /\ sendCount = 0

\* the request session.request would send for client c, were it called with
\* these arguments now
WouldSend(c, method, endpoint, kwargs) ==
    session_request(method, base_url[c] \o endpoint, config.RESPONSE_TIMEOUT, kwargs,
                    headers[c], cookies[c])

\* C12: whenever post(endpoint, data) has sent a request, its body is the body
\* that request('POST', endpoint, json=data) sends for the same data.
C12_PostBodyIsJsonBody ==
    \A t \in Threads :
       (pc[t] = "waiting" /\ call[t].began.inv.name = "post")
          => LET inv == call[t].began.inv
                 viaJson == WouldSend(call[t].client, "POST", inv.endpoint,
                                      [NoKwargs EXCEPT !.json = inv.data])
             IN  /\ viaJson.exc = None
                 /\ viaJson.val.body = Val(call[t].sent).body

\* the endpoint a create-style method posts to
CreateEndpoint(name) == IF name = "create_post" THEN "/posts" ELSE "/users"

\* C13: whenever create_post(data) or create_user(data) has sent a request, that
\* request has the method, URL, headers and body of the request
\* post(endpoint, data) sends on the same client.
C13_CreateSendsWhatPostSends ==
    \A t \in Threads :
       (pc[t] = "waiting" /\ call[t].began.inv.name \in {"create_post", "create_user"})
          => LET inv == call[t].began.inv
                 plan == post(CreateEndpoint(inv.name), inv.data)
                 viaPost == WouldSend(call[t].client, plan.method, plan.endpoint,
                                      plan.kwargs)
             IN  /\ plan.exc = None
                 /\ viaPost.exc = None
                 /\ viaPost.val = Val(call[t].sent)

\* C14: a get(endpoint) on the wire is one request: method GET, URL the plain
\* concatenation base_url + endpoint, every default header of the client
\* among its headers, and no body.
C14_GetSendsPlainRequest ==
    \A t \in Threads :
       (pc[t] = "waiting" /\ call[t].began.inv.name = "get"
                          /\ call[t].began.inv.params = None)
          => LET c == call[t].client
                 sent == Val(call[t].sent)
             IN  /\ attempts[t] = 1
                 /\ sent.method = "GET"
                 /\ sent.url = base_url[c] \o call[t].began.inv.endpoint
                 /\ \A k \in DOMAIN headers[c] :
                       k \in DOMAIN sent.headers /\ sent.headers[k] = headers[c][k]
                 /\ sent.body = None

C14_Witness ==
    /\ pc[Caller] = "waiting"
    /\ call[Caller].began.inv.name = "get"
    /\ call[Caller].client = "c1"
    /\ kind["c1"] = "APIClient"
    /\ token["c1"] = Some("X")
    /\ Val(call[Caller].sent).url = "https://example.test/api/posts"
    /\ Val(call[Caller].sent).headers["Content-Type"] = "application/json"
    /\ Val(call[Caller].sent).headers["Authorization"] = "Bearer X"

\* the request a newly constructed client sends for this invocation, given only
\* the base URL and the default headers of client c
FreshSend(c, inv) ==
    LET plan == Dispatch(inv)
    IN  session_request(plan.method, base_url[c] \o plan.endpoint,
                        config.RESPONSE_TIMEOUT, plan.kwargs, headers[c], None)

\* C15: the request on the wire is determined by the client's base URL, its
\* current default headers and the call's arguments: it is the request the
\* same call sends on a client that has made no call before.
C15_RequestFromClientAndArgsOnly ==
    \A t \in Threads :
       pc[t] = "waiting"
          => Val(call[t].sent) = FreshSend(call[t].client, call[t].began.inv).val

\* C16: a call on the wire carries no Authorization header other than the one
\* in effect when the call began, whatever set_auth_token did on the same
\* client in between.
C16_InFlightKeepsHeadersAtBegin ==
    \A t \in Threads :
       pc[t] = "waiting"
          => LET sent == Val(call[t].sent)
                 atBegin == call[t].began.headers
             IN  "Authorization" \in DOMAIN sent.headers
                    => /\ "Authorization" \in DOMAIN atBegin
                       /\ sent.headers["Authorization"] = atBegin["Authorization"]

\* C17: every configuration constant (base URLs, canned payloads, credentials,
\* timeout, max response time) keeps the value it had at process start,
\* whatever clients are constructed and whatever they are asked to do.
C17_ConfigReadOnly == config = Config

C17_Witness ==
    /\ kind["c1"] = "JSONPlaceholderClient"
    /\ base_url["c1"] = config.JSONPLACEHOLDER_BASE_URL
    /\ kind["c2"] = "ReqResClient"
    /\ base_url["c2"] = config.REQRES_BASE_URL
    /\ sendCount = MaxSends
    /\ pc[Caller] = "waiting"
    /\ Val(call[Caller].sent).timeout = config.RESPONSE_TIMEOUT
    /\ config.MAX_RESPONSE_TIME = MAX_RESPONSE_TIME

\* C18: every request on the wire carries the configured timeout,
\* Config.RESPONSE_TIMEOUT, the same value for every call on every client.
C18_ConfiguredTimeoutOnEveryRequest ==
    \A t \in Threads :
       pc[t] = "waiting"
          => /\ Val(call[t].sent).timeout = config.RESPONSE_TIMEOUT
             /\ Val(call[t].sent).timeout = RESPONSE_TIMEOUT

C18_Witness ==
    /\ pc[Caller] = "waiting"
    /\ call[Caller].client = "c2"
    /\ kind["c2"] = "ReqResClient"
    /\ call[Caller].began.inv.name = "login"
    /\ Val(call[Caller].sent).timeout = RESPONSE_TIMEOUT
    /\ sendCount = MaxSends

\* the method, path with query, and body the table of named operations gives
NamedOperation(inv) ==
    LET i == ToString(inv.id)
        n == ToString(IF inv.page = None THEN 1 ELSE Val(inv.page))
        d == IF inv.data = None THEN None ELSE Some(json_dumps(Val(inv.data)).val)
        Row(method, path, body) == [method |-> method, path |-> path, body |-> body]
    IN  CASE inv.name = "get_all_posts" -> Row("GET", "/posts", None)
          [] inv.name = "get_post" -> Row("GET", "/posts/" \o i, None)
          [] inv.name = "create_post" -> Row("POST", "/posts", d)
          [] inv.name = "update_post" -> Row("PUT", "/posts/" \o i, d)
          [] inv.name = "delete_post" -> Row("DELETE", "/posts/" \o i, None)
          [] inv.name = "get_post_comments" -> Row("GET", "/posts/" \o i \o "/comments", None)
          [] inv.name = "get_posts_by_user" -> Row("GET", "/posts?userId=" \o i, None)
          [] inv.name = "get_users" -> Row("GET", "/users?page=" \o n, None)

NamedOperations ==
    {"get_all_posts", "get_post", "create_post", "update_post", "delete_post",
     "get_post_comments", "get_posts_by_user", "get_users"}

\* C19: a named operation on the wire is one request with the method, the
\* endpoint and query, and the body its row of the table gives.
C19_NamedOperationsFollowTable ==
    \A t \in Threads :
       (pc[t] = "waiting" /\ call[t].began.inv.name \in NamedOperations)
          => LET row == NamedOperation(call[t].began.inv)
                 sent == Val(call[t].sent)
             IN  /\ attempts[t] = 1
                 /\ sent.method = row.method
                 /\ sent.url = base_url[call[t].client] \o row.path
                 /\ sent.body = row.body

\* a step of a request operation of caller t: the call itself, the send, the
\* answer or the failure
RequestStep(t) ==
    \/ pc[t] \in {"request", "waiting"} /\ pc'[t] # pc[t]
    \/ pc[t] = "idle" /\ pc'[t] = "request"
    \/ pc[t] = "idle" /\ outcome'[t] # outcome[t] /\ outcome'[t].method = "request"

\* a step of set_auth_token or remove_auth_token of caller t
TokenStep(t) ==
    \/ pc[t] = "idle" /\ pc'[t] = "idle" /\ outcome'[t].method = "set_auth_token"
    \/ pc[t] = "del" /\ outcome'[t].method = "remove_auth_token"

StringOverrides(kwargs) ==
    /\ kwargs.headers # None
    /\ \A k \in DOMAIN Val(kwargs.headers) : Val(kwargs.headers)[k] # None

BodyMethod(name, endpoint, data) ==
    CASE name = "post" -> post(endpoint, data)
      [] name = "put" -> put(endpoint, data)
      [] name = "patch" -> patch(endpoint, data)

\* C22: a post, put or patch on the wire sends, method apart, the request each
\* of the other two sends for the same endpoint and data; its body is the JSON
\* text of data when data is given, and it has no body when data is not given.
C22_BodyMethodsAlike ==
    \A t \in Threads :
       (pc[t] = "waiting" /\ call[t].began.inv.name \in {"post", "put", "patch"})
          => LET inv == call[t].began.inv
                 sent == Val(call[t].sent)
             IN  /\ \A name \in {"post", "put", "patch"} :
                       LET plan == BodyMethod(name, inv.endpoint, inv.data)
                           other == WouldSend(call[t].client, plan.method,
                                              plan.endpoint, plan.kwargs)
                       IN  /\ plan.exc = None
                           /\ other.exc = None
                           /\ [other.val EXCEPT !.method = sent.method] = sent
                 /\ inv.data = None => sent.body = None
                 /\ inv.data # None => sent.body = Some(json_dumps(Val(inv.data)).val)

\* run_all_tests is under way or has finished
InRunAll ==
    \/ runner.pc = "all_loop"
    \/ runner.caller = "run_all_tests"

\* C23: run_all_tests starts the groups in the order 1, 2, 3, 4, 5, each once
\* and one at a time; after a group returns, passed or failed, the next one is
\* due; and the summary is printed only when all five have a recorded result.
C23_AllGroupsInOrder ==
    /\ Cardinality(runner.running) <= 1
    /\ InRunAll
          => /\ Len(runner.started) <= Len(test_groups)
             /\ \A i \in DOMAIN runner.started : runner.started[i] = test_groups[i][1]
             /\ runner.running \subseteq {runner.group}
             /\ runner.pc = "all_loop"
                   => /\ runner.idx = Len(runner.started) + 1
                      /\ Len(runner.results) = Len(runner.started)
             /\ runner.summary # None
                   => /\ Len(runner.started) = 5
                      /\ Len(runner.results) = 5
                      /\ \A i \in 1..5 :
                            /\ runner.results[i][1] = i
                            /\ runner.results[i] = runner.returns[i]

C23_Witness ==
    /\ runner.summary # None
    /\ runner.started = <<1, 2, 3, 4, 5>>
    /\ Len(runner.results) = 5
    /\ ~runner.results[2][2]
    /\ runner.results[3][2]
    /\ ~runner.results[4][2]
    /\ runner.results[5][2]

\* C24: whenever run_test_group has returned, its value is True exactly when
\* the test process was launched and ended with return code 0; a launch that
\* raised yields False with no exception passed on to the caller.
C24_TrueExactlyOnReturnCodeZero ==
    runner.returns # <<>>
       => /\ runner.last.value <=> (runner.last.launched /\ runner.last.returncode = Some(0))
          /\ runner.returns[Len(runner.returns)] = <<runner.last.group, runner.last.value>>
          /\ ~runner.last.launched
                => /\ ~runner.last.value
                   /\ runner.exc = None
                   /\ runner.pc # "crashed"

C24_Witness ==
    /\ Len(runner.returns) = 3
    /\ runner.returns[1] = <<1, TRUE>>
    /\ runner.returns[2] = <<2, FALSE>>
    /\ runner.last = [group |-> 3, launched |-> FALSE, returncode |-> None, value |-> FALSE]
    /\ runner.pc = "all_loop"

\* C25: the summary's passed count is the number of groups for which
\* run_test_group returned True, its total is 5, and the all-passed message
\* goes out exactly when run_test_group returned True for all five groups.
C25_SummaryCountsResults ==
    runner.summary # None
       => LET s == Val(runner.summary)
              trues == {i \in DOMAIN runner.returns : runner.returns[i][2]}
          IN  /\ s.passed = Cardinality(trues)
              /\ s.total = 5
              /\ s.all_passed <=> (\A g \in 1..5 : <<g, TRUE>> \in {runner.returns[i] : i \in DOMAIN runner.returns})

C25_Witness ==
    /\ runner.summary # None
    /\ Val(runner.summary).passed = 3
    /\ Val(runner.summary).total = 5
    /\ ~Val(runner.summary).all_passed

\* the text denotes a group number in 1..5
ValidGroup(text) == int(text).exc = None /\ int(text).val \in 1..5

\* C26: an argument other than 'all' that is no group number in 1..5, and an
\* interactive group choice that is none, start no test group and end in no
\* uncaught exception; a group started from an entry point is one of 1..5.
C26_EntryPointsRejectBadInput ==
    /\ (runner.pc \notin {"off", "main"} /\ runner.argv # None
           /\ Val(runner.argv) # <<"a", "l", "l">> /\ ~ValidGroup(Val(runner.argv)))
          => (runner.started = <<>> /\ runner.exc = None)
    /\ (runner.choice # None /\ ~ValidGroup(Val(runner.choice)))
          => (runner.started = <<>> /\ runner.exc = None)
    /\ runner.caller \in {"main", "run_single_group"}
          => \A i \in DOMAIN runner.started : runner.started[i] \in 1..5

\* C27: with several callers on one client, a call's start reading is taken
\* when that call begins and kept while it is in flight; the elapsed time on
\* its response is computed from that reading and the clock at its own
\* return; and beginning or finishing a call leaves every other caller's
\* frame and response as they were.
C27_TimingIsPerCall ==
    [][\A t \in Threads :
         /\ (pc[t] = "idle" /\ pc'[t] = "request")
               => /\ call'[t].start_time = now
                  /\ \A u \in Threads \ {t} :
                        call'[u] = call[u] /\ outcome'[u] = outcome[u]
         /\ (pc[t] \in {"request", "waiting"} /\ pc'[t] \in {"request", "waiting"})
               => call'[t].start_time = call[t].start_time
         /\ (pc[t] = "waiting" /\ pc'[t] = "idle" /\ outcome'[t].kind = "response")
               => /\ outcome'[t].response.response_time_ms
                        = Some(response_time_ms(call[t].start_time, now))
                  /\ \A u \in Threads \ {t} :
                        call'[u] = call[u] /\ outcome'[u] = outcome[u]]_vars

C27_Witness ==
    /\ pc["t1"] = "waiting"
    /\ call["t1"].start_time = 0
    /\ now = 10
    /\ sendCount = 2
    /\ outcome["t2"].kind = "response"
    /\ outcome["t2"].response.response_time_ms = Some(0)

\* C28 (as claimed): remove_auth_token never ends in an exception, however
\* the callers of one client interleave.
C28_RemoveNeverRaises ==
    \A t \in Threads :
       outcome[t].method = "remove_auth_token" => outcome[t].kind # "raised"

\* C28 (amended): remove_auth_token raises only when the client's default
\* headers were changed by another caller between its presence check and its
\* deletion; if they are as the check found them, the deletion succeeds.
C28_RemoveRaisesOnlyWhenRaced ==
    [][\A t \in Threads :
         (pc[t] = "del" /\ pc'[t] = "idle")
            => /\ outcome'[t].method = "remove_auth_token"
               /\ outcome'[t].kind = "raised"
                     => headers[call[t].client] # call[t].began.headers
               /\ headers[call[t].client] = call[t].began.headers
                     => /\ outcome'[t] = ReturnedNone("remove_auth_token")
                        /\ "Authorization" \notin DOMAIN headers'[call[t].client]]_vars

C28_Witness ==
    /\ outcome["t1"].method = "remove_auth_token"
    /\ outcome["t1"].kind = "raised"
    /\ outcome["t1"].exc.type = "KeyError"
    /\ outcome["t2"] = ReturnedNone("remove_auth_token")
    /\ "Authorization" \notin DOMAIN headers["c1"]

\* C29: a client's default headers hold an Authorization entry exactly when
\* its most recent set_auth_token was not followed by a remove_auth_token,
\* the entry is 'Bearer ' followed by that token, and a call that passes no
\* headers of its own sends no other token.
C29_OnlyTheLatestToken ==
    /\ \A c \in Clients :
          kind[c] # "none"
             => /\ token[c] = None => "Authorization" \notin DOMAIN headers[c]
                /\ token[c] # None
                      => /\ "Authorization" \in DOMAIN headers[c]
                         /\ headers[c]["Authorization"] = "Bearer " \o Val(token[c])
    /\ \A t \in Threads :
          (pc[t] = "waiting" /\ call[t].kwargs.headers = None
              /\ "Authorization" \in DOMAIN Val(call[t].sent).headers)
             => /\ token[call[t].client] # None
                /\ Val(call[t].sent).headers["Authorization"]
                      = "Bearer " \o Val(token[call[t].client])

C29_Witness ==
    /\ token["c1"] = Some("Y")
    /\ headers["c1"]["Authorization"] = "Bearer Y"
    /\ kind["c2"] # "none"
    /\ token["c2"] = None
    /\ "Authorization" \notin DOMAIN headers["c2"]
    /\ outcome[Caller] = ReturnedNone("remove_auth_token")
    /\ sendCount = MaxSends

\* caller t's set_auth_token runs
SetTokenStep(t) ==
    /\ pc[t] = "idle" /\ pc'[t] = "idle"
    /\ outcome'[t] = ReturnedNone("set_auth_token")
    /\ kind' = kind /\ now' = now

\* caller t's remove_auth_token runs: its presence check, or its deletion
RemoveTokenStep(t) ==
    \/ pc[t] = "idle" /\ pc'[t] = "del"
    \/ pc[t] = "del" /\ pc'[t] = "idle"
    \/ /\ pc[t] = "idle" /\ pc'[t] = "idle"
       /\ outcome'[t] = ReturnedNone("remove_auth_token")
       /\ kind' = kind /\ now' = now

\* C30: a step of set_auth_token or remove_auth_token sends no request, leaves
\* every base URL as it was, changes no default header other than
\* Authorization, and changes the headers of one client at most: the one it
\* was called on.
C30_TokenMethodsTouchOnlyAuthorization ==
    [][\A t \in Threads :
         (SetTokenStep(t) \/ RemoveTokenStep(t))
            => /\ sendCount' = sendCount
               /\ pc'[t] \notin {"request", "waiting"}
               /\ attempts'[t] = 0
               /\ base_url' = base_url
               /\ \A c \in Clients :
                     \A k \in (DOMAIN headers[c] \cup DOMAIN headers'[c]) \ {"Authorization"} :
                        /\ k \in DOMAIN headers[c] \cap DOMAIN headers'[c]
                        /\ headers'[c][k] = headers[c][k]
               /\ \A c, d \in Clients :
                     (headers'[c] # headers[c] /\ headers'[d] # headers[d]) => c = d
               /\ pc[t] = "del"
                     => \A c \in Clients \ {call[t].client} : headers'[c] = headers[c]]_vars

C30_Witness ==
    /\ kind["c1"] = "APIClient"
    /\ kind["c2"] = "ReqResClient"
    /\ token["c1"] = Some("X")
    /\ headers["c1"] = set_auth_token_headers(APIClient_init(base_url["c1"]).headers, "X")
    /\ token["c2"] = None
    /\ headers["c2"] = [x \in {"Accept"} |-> "application/json"]
    /\ outcome[Caller] = ReturnedNone("set_auth_token")
    /\ sendCount = 0
====
